---------------------------- MODULE Spec2Model ----------------------------
(***************************************************************************)
(* The generic record service of src/src/app.py over the data model of     *)
(* src/src/db.py.  The state is the committed relational store (one table  *)
(* per entity kind), the primary-key sequences of the store, the startup   *)
(* phase of the process and the last HTTP response.  One action per route  *)
(* family (get, create, edit, delete) and one per startup initializer.     *)
(*                                                                         *)
(* A JSON / SQL value is an option: None is null, Some(v) a value.  A      *)
(* request payload is the sequence of its <<key, value>> pairs in the      *)
(* order the client wrote them (a Python dict keeps insertion order).      *)
(***************************************************************************)
EXTENDS Integers, Sequences, FiniteSets, TLC

VARIABLES store, seq, phase, scope, resp, deleted

vars == <<store, seq, phase, scope, resp, deleted>>

None == <<>>
Some(v) == <<v>>

Keys(data) == {data[i][1] : i \in DOMAIN data}

\* dict.get(k): the value of key k in a payload that holds it
Get(data, k) == data[CHOOSE i \in DOMAIN data : data[i][1] = k][2]

Put(f, k, v) == [x \in DOMAIN f \cup {k} |-> IF x = k THEN v ELSE f[x]]

Max(S) == CHOOSE x \in S : \A y \in S : y <= x

RECURSIVE SortedSeq(_)
\* the elements of a finite set of integers in increasing order
SortedSeq(S) == IF S = {} THEN <<>>
                ELSE LET m == Max(S) IN Append(SortedSeq(S \ {m}), m)

Range(s) == {s[i] : i \in DOMAIN s}

(***************************************************************************)
(* Bounds of the model.                                                    *)
(***************************************************************************)
\* rows a table of a create route may hold at once
MaxRows == 1
\* values drawn from each primary-key sequence
MaxSeq == 1

(***************************************************************************)
(* The schema: db.py.                                                      *)
(***************************************************************************)
Kinds == {"facilities", "departments", "abnormalities", "agents", "projects",
          "abilities", "harms", "egos", "clocks", "tiles"}

\* the configuration document data.json (not part of src/)
ranks_enum == {"Agent", "Captain"}
threat_levels_enum == {"ZAYIN", "TETH", "HE", "WAW", "ALEPH"}
ego_types_enum == {"Weapon", "Suit", "Gift"}
traumas_enum == {"trauma_a", "trauma_b", "trauma_c"}
departments == [dept_1 |-> 1, dept_2 |-> 2, dept_3 |-> 3, dept_4 |-> 4, dept_5 |-> 5]
department_names_enum == DOMAIN departments
threat_clocks == [ZAYIN |-> 1, TETH |-> 2, HE |-> 3, WAW |-> 4, ALEPH |-> 5]

\* request key -> relationship attribute, per table
fields_to_column ==
    [k \in Kinds |->
        CASE k = "agents" -> [department_id |-> "department", tile_id |-> "tile",
                              abnormality_id |-> "abnormality"]
          [] k = "abnormalities" -> [tile_id |-> "tile"]
          [] k = "harms" -> [agent_id |-> "agent"]
          [] k = "egos" -> [abnormality_id |-> "abnormality"]
          [] OTHER -> <<>>]

\* request key -> table of the referenced rows
field_to_tablename == [department_id |-> "departments", tile_id |-> "tiles",
                       abnormality_id |-> "abnormalities", agent_id |-> "agents"]

\* the Column attributes of each model class, in declaration order (Base.id
\* first).  Of the families of Agent columns that share one declaration shape
\* (the eight trait levels and ticks, the ten action levels) one member each
\* is kept.
columns(kind) ==
    CASE kind = "facilities" ->
           <<"id", "available_PE", "available_rabbits", "day", "shift", "alert_level">>
      [] kind = "departments" -> <<"id", "name", "buffs", "rabbited">>
      [] kind = "abnormalities" ->
           <<"id", "tile_id", "name", "abno_code", "blurb", "current_status",
             "threat_level", "is_breaching", "is_working", "description",
             "damage_type", "favored_work", "disfavored_work", "can_breach",
             "weaknesses", "resists", "management_show", "management_notes",
             "story_show", "stories", "clock_1", "clock_2", "clock_3", "clock_4",
             "clock_4_finished", "player_notes">>
      [] kind = "agents" ->
           <<"id", "tile_id", "department_id", "abnormality_id", "name", "blurb",
             "current_status", "character_notes", "rank", "physical_heal",
             "mental_heal", "stress", "traumas", "is_visible", "agent_exp",
             "fortitude", "fortitude_tick", "ability_tick", "force_lvl">>
      [] kind = "projects" -> <<"id", "name", "description", "max_clock", "curr_tick">>
      [] kind = "abilities" -> <<"id", "name", "description", "rank">>
      [] kind = "harms" -> <<"id", "agent_id", "level", "is_physical", "description">>
      [] kind = "egos" ->
           <<"id", "abnormality_id", "type", "name", "grade", "effect",
             "description", "max_extracted">>
      [] kind = "clocks" ->
           <<"id", "name", "description", "max_count", "tick_count", "important">>
      [] kind = "tiles" ->
           <<"id", "y", "x", "can_place_containment", "is_containment_unit",
             "is_working", "meltdown", "work_type", "engagement_status">>

\* the columns declared nullable=True
nullable(kind) ==
    CASE kind = "abnormalities" -> {"tile_id", "current_status", "player_notes"}
      [] kind = "agents" ->
           {"tile_id", "abnormality_id", "blurb", "current_status", "character_notes"}
      [] kind = "projects" -> {"description"}
      [] kind = "abilities" -> {"description"}
      [] kind = "harms" -> {"description"}
      [] kind = "egos" -> {"description", "max_extracted"}
      [] kind = "clocks" -> {"description"}
      [] kind = "tiles" -> {"is_working", "meltdown", "work_type", "engagement_status"}
      [] OTHER -> {}

\* the columns declared with default=..., and the default
default(kind) ==
    CASE kind = "facilities" ->
           [id |-> Some(1), available_PE |-> Some(0), available_rabbits |-> Some(0),
            day |-> Some(0), shift |-> Some(0), alert_level |-> Some(0)]
      [] kind = "departments" -> [buffs |-> Some(<<>>), rabbited |-> Some(FALSE)]
      [] kind = "abnormalities" ->
           [is_breaching |-> Some(FALSE), is_working |-> Some(FALSE),
            management_show |-> Some(0), management_notes |-> Some(<<>>),
            story_show |-> Some(0), stories |-> Some(<<>>),
            clock_1 |-> Some(0), clock_2 |-> Some(0), clock_3 |-> Some(0),
            clock_4 |-> Some(0), clock_4_finished |-> Some(FALSE)]
      [] kind = "agents" ->
           [physical_heal |-> Some(0), mental_heal |-> Some(0), stress |-> Some(0),
            traumas |-> Some(<<>>), is_visible |-> Some(TRUE), agent_exp |-> Some(0),
            fortitude |-> Some(0), fortitude_tick |-> Some(0),
            ability_tick |-> Some(0), force_lvl |-> Some(0)]
      [] kind = "projects" -> [curr_tick |-> Some(0)]
      [] kind = "abilities" -> [rank |-> Some("Agent")]
      [] kind = "clocks" -> [tick_count |-> Some(0), important |-> Some(FALSE)]
      [] OTHER -> <<>>

\* app.py 35-44: the non-nullable columns without default, id excepted
required_fields(kind) ==
    SelectSeq(columns(kind),
              LAMBDA c : c \notin nullable(kind) /\ c \notin DOMAIN default(kind)
                         /\ c # "id")

\* app.py 46: the relationship attributes of each mapped class
relationship_fields(kind) ==
    CASE kind = "departments" -> {"agents", "projects"}
      [] kind = "abnormalities" -> {"tile", "clocks", "agents", "egos"}
      [] kind = "agents" -> {"tile", "department", "abnormality", "egos",
                             "abilities", "clocks", "harms"}
      [] kind = "projects" -> {"departments"}
      [] kind = "abilities" -> {"agents"}
      [] kind = "harms" -> {"agent"}
      [] kind = "egos" -> {"agents", "abnormality"}
      [] kind = "clocks" -> {"agents", "abnormalities"}
      [] kind = "tiles" -> {"abnormalities", "agents"}
      [] OTHER -> {}

(***************************************************************************)
(* The relational store: what PostgreSQL enforces for the tables that      *)
(* db.create_all() derives from the Column declarations.  A table is a     *)
(* function from the ids it holds to rows; a row gives every column an     *)
(* option.                                                                 *)
(***************************************************************************)
\* ForeignKey(...) columns: <<table, column, referenced table>>
foreign_keys ==
    {<<"abnormalities", "tile_id", "tiles">>, <<"agents", "tile_id", "tiles">>,
     <<"agents", "department_id", "departments">>,
     <<"agents", "abnormality_id", "abnormalities">>,
     <<"harms", "agent_id", "agents">>, <<"egos", "abnormality_id", "abnormalities">>}

\* Enum(...) columns and their value sets
enum_columns(kind) ==
    CASE kind = "departments" -> [name |-> department_names_enum]
      [] kind = "abnormalities" -> [threat_level |-> threat_levels_enum]
      [] kind = "agents" -> [rank |-> ranks_enum]
      [] kind = "abilities" -> [rank |-> ranks_enum]
      [] kind = "egos" -> [type |-> ego_types_enum, grade |-> threat_levels_enum]
      [] OTHER -> <<>>

Between(o, lo, hi) == o = None \/ (lo <= o[1] /\ o[1] <= hi)

\* array_length(a, 1) of PostgreSQL: NULL for an empty array
array_length(o) == IF o = None \/ Len(o[1]) = 0 THEN None ELSE Some(Len(o[1]))

\* "show >= 0 AND show <= array_length(notes, 1)": a CHECK rejects a row only
\* when its expression is false; false AND null is false, true AND null is null
show_constraint(show, notes) ==
    IF show[1] < 0 THEN FALSE
    ELSE array_length(notes) = None \/ show[1] <= array_length(notes)[1]

\* a schema whose columns carry no CheckConstraint
check_constraints_dropped(kind, row) == TRUE

\* The CheckConstraint objects passed to Column(...).  The two constraints
\* assigned to class attributes (Facility.facility_constraint, db.py 84, and
\* Abnormality.breaching_xor_working, db.py 165) are in no Column and in no
\* __table_args__, so the tables do not carry them.
check_constraints(kind, row) ==
    CASE kind = "facilities" ->
           Between(row.shift, 0, 2) /\ Between(row.alert_level, 0, 3)
      [] kind = "abnormalities" ->
           /\ show_constraint(row.management_show, row.management_notes)
           /\ show_constraint(row.story_show, row.stories)
      [] kind = "agents" ->
           /\ Between(row.physical_heal, 0, 4) /\ Between(row.mental_heal, 0, 4)
           /\ Between(row.fortitude, 0, 5) /\ Between(row.fortitude_tick, 0, 6)
           /\ Between(row.force_lvl, 0, 4)
      [] kind = "projects" ->
           row.curr_tick[1] >= 0 /\ row.curr_tick[1] <= row.max_clock[1]
      [] kind = "harms" -> Between(row.level, 0, 3)
      [] kind = "egos" -> row.max_extracted = None \/ row.type # Some("Gift")
      [] kind = "clocks" -> row.tick_count[1] <= row.max_count[1]
      [] kind = "tiles" ->
           /\ Between(row.y, 0, 15) /\ Between(row.x, 0, 27)
           /\ (row.can_place_containment = Some(TRUE)
               \/ row.is_containment_unit = Some(FALSE))
      [] OTHER -> TRUE

\* The error of writing `row` to table `kind` of `tx` ("" when the statement
\* succeeds): `old` is None for an INSERT and Some(id) of the row for an UPDATE.
violation(tx, kind, old, row) ==
    LET id == row.id
        enums == enum_columns(kind)
    IN  IF \E c \in DOMAIN enums : row[c] # None /\ row[c][1] \notin enums[c]
        THEN "InvalidTextRepresentation"
        ELSE IF \E c \in DOMAIN row : row[c] = None /\ c \notin nullable(kind)
        THEN "NotNullViolation"
        ELSE IF ~check_constraints(kind, row) THEN "CheckViolation"
        ELSE IF id # old /\ id[1] \in DOMAIN tx[kind] THEN "UniqueViolation"
        ELSE IF \E fk \in foreign_keys :
                   /\ fk[1] = kind /\ row[fk[2]] # None
                   /\ row[fk[2]][1] \notin DOMAIN tx[fk[3]]
        THEN "ForeignKeyViolation"
        ELSE IF /\ old # None /\ id # old
                /\ \E fk \in foreign_keys :
                      /\ fk[3] = kind
                      /\ \E r \in DOMAIN tx[fk[1]] : tx[fk[1]][r][fk[2]] = old
        THEN "ForeignKeyViolation"
        ELSE ""

\* the exception SQLAlchemy raises for a failed statement
dbapi_exception(v) == IF v = "InvalidTextRepresentation" THEN "DataError"
                      ELSE "IntegrityError"

\* table `kind` of `tx` with the row of id `old` (if any) replaced by `row`
write_row(tx, kind, old, row) ==
    LET ids == (DOMAIN tx[kind] \ Range(old)) \cup {row.id[1]}
    IN  [tx EXCEPT ![kind] = [i \in ids |-> IF i = row.id[1] THEN row ELSE tx[kind][i]]]

\* the row an INSERT of a pending object writes: the attributes set on it, the
\* Python-side defaults for the others, the next value of the serial sequence
\* for an absent id, NULL for the rest
insert_values(kind, obj, sq) ==
    [c \in Range(columns(kind)) |->
        IF c \in DOMAIN obj /\ obj[c] # None THEN obj[c]
        ELSE IF c \in DOMAIN default(kind) THEN default(kind)[c]
        ELSE IF c = "id" THEN Some(sq[kind] + 1)
        ELSE None]

uses_sequence(kind, obj) ==
    /\ "id" \notin DOMAIN default(kind)
    /\ ("id" \notin DOMAIN obj \/ obj["id"] = None)

(***************************************************************************)
(* The mapped classes: validators, constructor, unit of work.              *)
(***************************************************************************)
NoExc == [class |-> "", by |-> "", detail |-> ""]
Exc(class, by, detail) == [class |-> class, by |-> by, detail |-> detail]

\* @validates(...): the function the mapper registers for each attribute.  A
\* class body keeps one function per name, so of the two functions that Tile
\* names validates_null_abno the second (db.py 672) is the one registered and
\* is_containment_unit (db.py 657) has none.
validators(kind) ==
    CASE kind = "abnormalities" ->
           [clock_1 |-> "validate_clocks", clock_2 |-> "validate_clocks",
            clock_3 |-> "validate_clocks", clock_4 |-> "validate_clocks"]
      [] kind = "agents" ->
           [stress |-> "validates_stress", traumas |-> "validates_traumas"]
      [] kind = "tiles" ->
           [is_working |-> "validates_null_abno", meltdown |-> "validates_null_abno",
            work_type |-> "validates_null_abno",
            engagement_status |-> "validates_null_abno"]
      [] OTHER -> <<>>

\* the positional parameters each validator function declares
parameters(fn) ==
    CASE fn = "validate_clocks" -> <<"self", "value">>
      [] fn = "validates_stress" -> <<"self", "value">>
      [] fn = "validates_traumas" -> <<"self", "value">>
      [] fn = "validates_null_abno" -> <<"self", "key", "value">>

\* self.<attribute> of an instance: None for an attribute not set yet
attr(self, name) == IF name \in DOMAIN self THEN self[name] ELSE None

\* Abnormality.validate_clocks, db.py 205-211
validate_clocks(self, value) ==
    IF value[1] < 0 THEN Exc("ValueError", "validate_clocks", "positive")
    ELSE IF attr(self, "threat_level") = None
              \/ attr(self, "threat_level")[1] \notin DOMAIN threat_clocks
    THEN Exc("KeyError", "validate_clocks", "threat_level")
    ELSE IF value[1] > threat_clocks[attr(self, "threat_level")[1]]
    THEN Exc("ValueError", "validate_clocks", "threat clocks")
    ELSE NoExc

\* Agent.validates_stress, db.py 308-316
validates_stress(self, value) ==
    IF attr(self, "rank") = Some("Agent")
    THEN IF ~(0 <= value[1] /\ value[1] <= 6)
         THEN Exc("ValueError", "validates_stress", "between 0 and 6") ELSE NoExc
    ELSE IF ~(0 <= value[1] /\ value[1] <= 8)
         THEN Exc("ValueError", "validates_stress", "between 0 and 8") ELSE NoExc

\* Agent.validates_traumas, db.py 320-328
validates_traumas(self, value) ==
    IF attr(self, "rank") = Some("Agent")
    THEN IF Len(value[1]) > 1
         THEN Exc("ValueError", "validates_traumas", "up to 1") ELSE NoExc
    ELSE IF Len(value[1]) > 2
         THEN Exc("ValueError", "validates_traumas", "up to 2") ELSE NoExc

\* Tile.validates_null_abno, db.py 672-676: self.abnormalities is a
\* collection, never None
validates_null_abno(self, key, value) ==
    LET abnormalities_is_not_None == TRUE
    IN  IF abnormalities_is_not_None \/ value = None
        THEN Exc("ValueError", "validates_null_abno", key)
        ELSE NoExc

\* attribute-set events that call no validator
validate_skipped(kind, self, key, value) == NoExc

\* The attribute-set event calls the registered function as fn(obj, key,
\* value); Python raises TypeError when fn declares another number of
\* positional parameters.
validate(kind, self, key, value) ==
    IF key \notin DOMAIN validators(kind) THEN NoExc
    ELSE LET fn == validators(kind)[key]
         IN  IF Len(parameters(fn)) # Len(<<self, key, value>>)
             THEN Exc("TypeError", fn, key)
             ELSE CASE fn = "validate_clocks" -> validate_clocks(self, value)
                    [] fn = "validates_stress" -> validates_stress(self, value)
                    [] fn = "validates_traumas" -> validates_traumas(self, value)
                    [] fn = "validates_null_abno" -> validates_null_abno(self, key, value)

RECURSIVE construct(_, _, _, _)
\* model(**data): setattr for each keyword in order; a keyword that is no
\* attribute of the class raises TypeError, a JSON value assigned to a
\* relationship attribute raises AttributeError
construct(kind, data, i, obj) ==
    IF i > Len(data) THEN [exc |-> NoExc, obj |-> obj]
    ELSE LET k == data[i][1]
             v == data[i][2]
         IN  IF k \notin Range(columns(kind)) \cup relationship_fields(kind)
             THEN [exc |-> Exc("TypeError", "constructor", k), obj |-> obj]
             ELSE IF k \in relationship_fields(kind)
             THEN [exc |-> Exc("AttributeError", "constructor", k), obj |-> obj]
             ELSE IF validate(kind, obj, k, v) # NoExc
             THEN [exc |-> validate(kind, obj, k, v), obj |-> obj]
             ELSE construct(kind, data, i + 1, Put(obj, k, v))

\* A session: tx is the store as the open transaction sees it, sq the
\* sequences, obj the attributes of the one instance the handler works on,
\* old its persisted id (None while it is pending).
Session(tx, sq, kind, obj, old) ==
    [tx |-> tx, sq |-> sq, kind |-> kind, obj |-> obj, old |-> old]

\* Session.flush(): INSERT the pending instance, or UPDATE the persistent one
\* if an attribute differs from its row.  nextval() is not undone by a failed
\* statement.
flush(s) ==
    IF s.old = None
    THEN LET row == insert_values(s.kind, s.obj, s.sq)
             sq2 == IF uses_sequence(s.kind, s.obj)
                    THEN [s.sq EXCEPT ![s.kind] = @ + 1] ELSE s.sq
             v == violation(s.tx, s.kind, None, row)
         IN  IF v # ""
             THEN [exc |-> Exc(dbapi_exception(v), "INSERT", v),
                   s |-> [s EXCEPT !.sq = sq2]]
             ELSE [exc |-> NoExc,
                   s |-> Session(write_row(s.tx, s.kind, None, row), sq2, s.kind,
                                 row, row.id)]
    ELSE IF s.obj = s.tx[s.kind][s.old[1]] THEN [exc |-> NoExc, s |-> s]
    ELSE LET v == violation(s.tx, s.kind, s.old, s.obj)
         IN  IF v # ""
             THEN [exc |-> Exc(dbapi_exception(v), "UPDATE", v), s |-> s]
             ELSE [exc |-> NoExc,
                   s |-> Session(write_row(s.tx, s.kind, s.old, s.obj), s.sq,
                                 s.kind, s.obj, s.obj.id)]

\* one-to-many relationships with cascade="all, delete-orphan": <<parent,
\* child table, child column>>
delete_cascades == {<<"agents", "harms", "agent_id">>,
                    <<"abnormalities", "egos", "abnormality_id">>}

\* one-to-many relationships without delete cascade: the unit of work sets
\* the child column to NULL
delete_nullifies == {<<"departments", "agents", "department_id">>,
                     <<"abnormalities", "agents", "abnormality_id">>,
                     <<"tiles", "abnormalities", "tile_id">>,
                     <<"tiles", "agents", "tile_id">>}

\* a delete of the instance's row alone: no cascade, and a store that does
\* not look for rows that still refer to it
flush_delete_row_only(tx, kind, id) ==
    [exc |-> NoExc,
     tx |-> [t \in Kinds |->
               IF t = kind THEN [r \in DOMAIN tx[t] \ {id} |-> tx[t][r]]
               ELSE tx[t]]]

\* Session.delete(instance) and flush: the rows of cascading relationships
\* are deleted with the instance, the referring column of the other
\* one-to-many children is set to NULL, and the store refuses a DELETE that
\* leaves a reference to the row
flush_delete(tx, kind, id) ==
    LET dropped(t) == {r \in DOMAIN tx[t] :
                         \E c \in delete_cascades :
                            c[1] = kind /\ c[2] = t /\ tx[t][r][c[3]] = Some(id)}
        orphan(t, r) == [col \in DOMAIN tx[t][r] |->
                           IF \E n \in delete_nullifies :
                                 /\ n[1] = kind /\ n[2] = t /\ n[3] = col
                                 /\ tx[t][r][col] = Some(id)
                           THEN None ELSE tx[t][r][col]]
        tx2 == [t \in Kinds |->
                  IF t = kind THEN [r \in DOMAIN tx[t] \ {id} |-> tx[t][r]]
                  ELSE [r \in DOMAIN tx[t] \ dropped(t) |-> orphan(t, r)]]
        v == IF \E t \in Kinds : \E r \in DOMAIN tx2[t] :
                   \E col \in DOMAIN tx2[t][r] :
                      tx2[t][r][col] = None /\ tx[t][r][col] # None
                      /\ col \notin nullable(t)
             THEN "NotNullViolation"
             ELSE IF \E fk \in foreign_keys :
                        /\ fk[3] = kind
                        /\ \E r \in DOMAIN tx2[fk[1]] : tx2[fk[1]][r][fk[2]] = Some(id)
             THEN "ForeignKeyViolation"
             ELSE ""
    IN  IF v # "" THEN [exc |-> Exc(dbapi_exception(v), "DELETE", v), tx |-> tx]
        ELSE [exc |-> NoExc, tx |-> tx2]

(***************************************************************************)
(* Serialization: the serialize and simple_serialize methods.              *)
(***************************************************************************)
simple_columns(kind) ==
    CASE kind = "departments" -> {"id", "name"}
      [] kind = "abnormalities" -> {"id", "tile_id", "name", "abno_code", "threat_level"}
      [] kind = "agents" -> {"id", "name", "department_id", "rank"}
      [] kind = "projects" -> {"id", "name", "max_clock", "curr_tick"}
      [] kind = "abilities" -> {"id", "name", "description", "rank"}
      [] kind = "egos" -> {"id", "abnormality_id", "type", "name", "grade"}
      [] OTHER -> Range(columns(kind))

simple_serialize(kind, row) == [c \in simple_columns(kind) |-> row[c]]

\* the lists of related rows a full serialization nests: key -> <<table,
\* column that refers to this row>>; the column is "" for a many-to-many
\* relationship, whose association table no route writes
nested(kind) ==
    CASE kind = "departments" ->
           [agents |-> <<"agents", "department_id">>, projects |-> <<"projects", "">>]
      [] kind = "abnormalities" ->
           [agents |-> <<"agents", "abnormality_id">>,
            egos |-> <<"egos", "abnormality_id">>]
      [] kind = "agents" ->
           [egos |-> <<"egos", "">>, abilities |-> <<"abilities", "">>,
            harms |-> <<"harms", "agent_id">>]
      [] kind = "projects" -> [departments |-> <<"departments", "">>]
      [] kind = "abilities" -> [agents |-> <<"agents", "">>]
      [] kind = "egos" -> [agents |-> <<"agents", "">>]
      [] kind = "tiles" ->
           [abnormalities |-> <<"abnormalities", "tile_id">>,
            agents |-> <<"agents", "tile_id">>]
      [] OTHER -> <<>>

related(db, link, id) ==
    IF link[2] = "" THEN <<>>
    ELSE LET ids == SortedSeq({r \in DOMAIN db[link[1]] :
                                  db[link[1]][r][link[2]] = Some(id)})
         IN  [i \in DOMAIN ids |-> simple_serialize(link[1], db[link[1]][ids[i]])]

serialize(db, kind, row) ==
    [c \in DOMAIN row \cup DOMAIN nested(kind) |->
        IF c \in DOMAIN row THEN row[c]
        ELSE related(db, nested(kind)[c], row.id[1])]

(***************************************************************************)
(* The generic functions of app.py.  A handler maps the committed store    *)
(* and the sequences to what it leaves committed, the response it returns  *)
(* (code 0: none, it raised) and the exception it raised.                  *)
(***************************************************************************)
success_response(data, code) == [code |-> code, body |-> data]

failure_response(message, code) == [code |-> code, body |-> [error |-> message]]

Returned(db, sq, response) == [db |-> db, sq |-> sq, response |-> response, exc |-> NoExc]

Raised(db, sq, exc) ==
    [db |-> db, sq |-> sq, response |-> [code |-> 0, body |-> None], exc |-> exc]

\* the SQLAlchemy exception classes that derive from StatementError
StatementError == {"IntegrityError", "DataError"}

\* str(e) of a caught exception
str(exc) == <<exc.class, exc.by, exc.detail>>

catch_exception_wrapper(result) ==
    IF result.exc = NoExc THEN result
    ELSE IF result.exc.class \in StatementError
    THEN [result EXCEPT !.response = failure_response(str(result.exc), 400)]
    ELSE [result EXCEPT !.response = failure_response(str(result.exc), 500)]

\* a check that reports the first absent field only
check_required_fields_first(data, kind) ==
    LET model_required_fields == required_fields(kind)
        missing_fields == SelectSeq(model_required_fields, LAMBDA f : f \notin Keys(data))
    IN  IF missing_fields # <<>>
        THEN Some(failure_response(<<"Missing required fields: ",
                                     <<missing_fields[1]>>>>, 400))
        ELSE None

check_required_fields(data, kind) ==
    LET model_required_fields == required_fields(kind)
        missing_fields == SelectSeq(model_required_fields, LAMBDA f : f \notin Keys(data))
    IN  IF \E i \in DOMAIN model_required_fields :
              model_required_fields[i] \notin Keys(data)
        THEN Some(failure_response(<<"Missing required fields: ", missing_fields>>, 400))
        ELSE None

RECURSIVE update_relationships(_, _, _)
\* Query.get() flushes the session before it selects.  The relationship
\* attribute that a found row is assigned to writes the row's id to the
\* referring column, which here has the name of the request key.
update_relationships(s, data, i) ==
    IF i > Len(data) THEN [exc |-> NoExc, s |-> s, ret |-> None]
    ELSE LET k == data[i][1]
             relationship_id == data[i][2]
         IN  IF k \notin DOMAIN fields_to_column[s.kind]
             THEN update_relationships(s, data, i + 1)
             ELSE LET f == flush(s)
                      table == field_to_tablename[k]
                  IN  IF f.exc # NoExc THEN [exc |-> f.exc, s |-> f.s, ret |-> None]
                      ELSE IF relationship_id[1] \notin DOMAIN f.s.tx[table]
                      THEN [exc |-> NoExc, s |-> f.s,
                            ret |-> Some(failure_response(
                                      <<"Row not found in table '", table, "' for id=",
                                        relationship_id[1]>>, 404))]
                      ELSE update_relationships(
                               [f.s EXCEPT !.obj = Put(f.s.obj, k, relationship_id)],
                               data, i + 1)

\* a get that answers with simple_serialize() instead of serialize()
get_one_simple(db, sq, model_id, kind) ==
    IF model_id \notin DOMAIN db[kind]
    THEN Returned(db, sq, failure_response(<<"Row not found for id: ", model_id>>, 404))
    ELSE Returned(db, sq, success_response(simple_serialize(kind, db[kind][model_id]), 200))

get_one_from_model(db, sq, model_id, kind) ==
    IF model_id \notin DOMAIN db[kind]
    THEN Returned(db, sq, failure_response(<<"Row not found for id: ", model_id>>, 404))
    ELSE Returned(db, sq, success_response(serialize(db, kind, db[kind][model_id]), 200))

\* a create that returns the serialized instance without session.commit()
create_model_uncommitted(db, sq, data, kind) ==
    LET has_fields == check_required_fields(data, kind)
        new_model == construct(kind, data, 1, <<>>)
        rel == update_relationships(Session(db, sq, kind, new_model.obj, None), data, 1)
        f == flush(rel.s)
    IN  IF has_fields # None THEN Returned(db, sq, has_fields[1])
        ELSE IF new_model.exc # NoExc THEN Raised(db, sq, new_model.exc)
        ELSE IF rel.exc # NoExc THEN Raised(db, rel.s.sq, rel.exc)
        ELSE IF f.exc # NoExc THEN Raised(db, f.s.sq, f.exc)
        ELSE Returned(db, f.s.sq,
                      success_response(
                          serialize(f.s.tx, kind, f.s.tx[kind][f.s.old[1]]), 201))

\* the result of update_relationships is not looked at (app.py 169);
\* session.commit() flushes, and expires the instance, so that serialize()
\* reads the committed row
create_model(db, sq, data, kind) ==
    LET has_fields == check_required_fields(data, kind)
        new_model == construct(kind, data, 1, <<>>)
        rel == update_relationships(Session(db, sq, kind, new_model.obj, None), data, 1)
        f == flush(rel.s)
    IN  IF has_fields # None THEN Returned(db, sq, has_fields[1])
        ELSE IF new_model.exc # NoExc THEN Raised(db, sq, new_model.exc)
        ELSE IF rel.exc # NoExc THEN Raised(db, rel.s.sq, rel.exc)
        ELSE IF f.exc # NoExc THEN Raised(db, f.s.sq, f.exc)
        ELSE Returned(f.s.tx, f.s.sq,
                      success_response(
                          serialize(f.s.tx, kind, f.s.tx[kind][f.s.old[1]]), 201))

\* a delete that serializes the instance from what the store holds after the
\* commit
delete_model_reloaded(db, sq, model_id, kind) ==
    LET f == flush_delete(db, kind, model_id)
    IN  IF model_id \in DOMAIN db[kind]
        THEN IF f.exc # NoExc THEN Raised(db, sq, f.exc)
             ELSE Returned(f.tx, sq,
                           success_response(serialize(f.tx, kind, db[kind][model_id]), 200))
        ELSE Returned(db, sq, failure_response(<<"Row not found for id: ", model_id>>, 404))

\* a delete that returns the serialized instance without session.commit()
delete_model_uncommitted(db, sq, model_id, kind) ==
    LET f == flush_delete(db, kind, model_id)
    IN  IF model_id \in DOMAIN db[kind]
        THEN IF f.exc # NoExc THEN Raised(db, sq, f.exc)
             ELSE Returned(db, sq,
                           success_response(serialize(db, kind, db[kind][model_id]), 200))
        ELSE Returned(db, sq, failure_response(<<"Row not found for id: ", model_id>>, 404))

\* the instance is loaded with all its relationships (joinedload) and is
\* detached, not expired, by the commit: serialize() reads what was loaded
delete_model_by_id(db, sq, model_id, kind) ==
    LET f == flush_delete(db, kind, model_id)
    IN  IF model_id \in DOMAIN db[kind]
        THEN IF f.exc # NoExc THEN Raised(db, sq, f.exc)
             ELSE Returned(f.tx, sq,
                           success_response(serialize(db, kind, db[kind][model_id]), 200))
        ELSE Returned(db, sq, failure_response(<<"Row not found for id: ", model_id>>, 404))

RECURSIVE update_columns(_, _, _, _)
\* app.py 207-211: the loop over the payload
update_columns(kind, data, i, obj) ==
    IF i > Len(data) THEN [exc |-> NoExc, obj |-> obj, ret |-> None]
    ELSE LET k == data[i][1]
             v == data[i][2]
         IN  IF k \notin Range(columns(kind))
             THEN [exc |-> NoExc, obj |-> obj,
                   ret |-> Some(failure_response(<<"Column '", k, "' not found">>, 400))]
             ELSE IF validate(kind, obj, k, v) # NoExc
             THEN [exc |-> validate(kind, obj, k, v), obj |-> obj, ret |-> None]
             ELSE update_columns(kind, data, i + 1, Put(obj, k, v))

\* an edit that commits the columns set so far before it returns the
\* UnknownColumn answer
edit_model_commit_first(db, sq, model_id, data, kind) ==
    LET upd == update_columns(kind, data, 1, db[kind][model_id])
        part == flush(Session(db, sq, kind, upd.obj, Some(model_id)))
        rel == update_relationships(Session(db, sq, kind, upd.obj, Some(model_id)), data, 1)
        f == flush(rel.s)
    IN  IF model_id \notin DOMAIN db[kind]
        THEN Returned(db, sq, failure_response(<<"Row not found for id: ", model_id>>, 404))
        ELSE IF upd.ret # None THEN Returned(part.s.tx, sq, upd.ret[1])
        ELSE IF upd.exc # NoExc THEN Raised(db, sq, upd.exc)
        ELSE IF rel.exc # NoExc THEN Raised(db, rel.s.sq, rel.exc)
        ELSE IF f.exc # NoExc THEN Raised(db, f.s.sq, f.exc)
        ELSE Returned(f.s.tx, f.s.sq,
                      success_response(
                          serialize(f.s.tx, kind, f.s.tx[kind][f.s.old[1]]), 200))

\* a return before session.commit() leaves the changes in the session, which
\* the teardown of the request context discards
edit_model_by_id(db, sq, model_id, data, kind) ==
    LET upd == update_columns(kind, data, 1, db[kind][model_id])
        rel == update_relationships(Session(db, sq, kind, upd.obj, Some(model_id)), data, 1)
        f == flush(rel.s)
    IN  IF model_id \notin DOMAIN db[kind]
        THEN Returned(db, sq, failure_response(<<"Row not found for id: ", model_id>>, 404))
        ELSE IF upd.ret # None THEN Returned(db, sq, upd.ret[1])
        ELSE IF upd.exc # NoExc THEN Raised(db, sq, upd.exc)
        ELSE IF rel.exc # NoExc THEN Raised(db, rel.s.sq, rel.exc)
        ELSE IF f.exc # NoExc THEN Raised(db, f.s.sq, f.exc)
        ELSE Returned(f.s.tx, f.s.sq,
                      success_response(
                          serialize(f.s.tx, kind, f.s.tx[kind][f.s.old[1]]), 200))

(***************************************************************************)
(* The requests the model sends.                                           *)
(***************************************************************************)
get_routes == Kinds
create_routes == {"abnormalities", "agents", "projects", "abilities", "harms",
                  "egos", "clocks"}
delete_routes == create_routes
edit_routes == Kinds

\* What one behaviour sends requests for: every request of the model for the
\* tables of `tables`, and for the tables of `parents` (whose rows those of
\* `tables` refer to) the creation of a plain row and its deletion.  Tables
\* that no foreign key connects change independently of each other.
Scope(tables, parents) == [tables |-> tables, parents |-> parents]

Scopes == {Scope({"facilities"}, {}), Scope({"departments", "agents"}, {}),
           Scope({"agents"}, {"abnormalities"}),
           Scope({"harms"}, {"agents"}), Scope({"abnormalities"}, {}),
           Scope({"egos"}, {"abnormalities"}), Scope({"projects"}, {}),
           Scope({"abilities"}, {}), Scope({"clocks"}, {}), Scope({"tiles"}, {})}

\* the ids a request path names: those the sequences give, and one more
RequestIds == 1 .. MaxSeq + 1

\* an id no row has
Absent == 9

\* payloads that hold every required field, in declaration order
complete(kind) ==
    CASE kind = "agents" ->
           {<<<<"department_id", Some(d)>>, <<"name", Some("n")>>, <<"rank", Some(r)>>>> :
               d \in {1, Absent}, r \in ranks_enum}
      [] kind = "abnormalities" ->
           {<<<<"name", Some("n")>>, <<"abno_code", Some("c")>>, <<"blurb", Some("b")>>,
              <<"threat_level", Some("TETH")>>, <<"description", Some("d")>>,
              <<"damage_type", Some("t")>>, <<"favored_work", Some("f")>>,
              <<"disfavored_work", Some("g")>>, <<"can_breach", Some(TRUE)>>,
              <<"weaknesses", Some("w")>>, <<"resists", Some("r")>>>>}
      [] kind = "projects" -> {<<<<"name", Some("n")>>, <<"max_clock", Some(1)>>>>}
      [] kind = "abilities" -> {<<<<"name", Some("n")>>>>}
      [] kind = "harms" ->
           {<<<<"agent_id", Some(a)>>, <<"level", Some(l)>>, <<"is_physical", Some(TRUE)>>>> :
               a \in {1, Absent}, l \in {1, 4}}
      [] kind = "egos" ->
           {<<<<"abnormality_id", Some(a)>>, <<"type", Some(t)>>, <<"name", Some("n")>>,
              <<"grade", Some("TETH")>>, <<"effect", Some("e")>>>> :
               a \in {1, Absent}, t \in {"Weapon", "Gift"}}
      [] kind = "clocks" -> {<<<<"name", Some("n")>>, <<"max_count", Some(1)>>>>}
      [] OTHER -> {<<>>}

\* what a payload holds besides
extras(kind) ==
    {<<>>, <<<<"id", Some(2)>>>>, <<<<"bogus", Some(1)>>>>} \cup
    CASE kind = "agents" ->
           {<<<<"stress", Some(7)>>>>, <<<<"stress", Some(3)>>>>,
            <<<<"physical_heal", Some(5)>>>>, <<<<"abnormality_id", Some(1)>>>>}
      [] kind = "abnormalities" ->
           {<<<<"is_breaching", Some(TRUE)>>, <<"is_working", Some(TRUE)>>>>,
            <<<<"is_working", Some(TRUE)>>>>, <<<<"clock_1", Some(1)>>>>,
            <<<<"clock_1", Some(2)>>>>, <<<<"story_show", Some(-1)>>>>,
            <<<<"story_show", Some(1)>>>>}
      [] kind = "projects" -> {<<<<"curr_tick", Some(1)>>>>, <<<<"curr_tick", Some(2)>>>>}
      [] kind = "abilities" -> {<<<<"rank", Some("Captain")>>>>, <<<<"rank", Some("Boss")>>>>}
      [] kind = "egos" -> {<<<<"max_extracted", Some(1)>>>>}
      [] kind = "clocks" -> {<<<<"tick_count", Some(1)>>>>, <<<<"tick_count", Some(2)>>>>}
      [] OTHER -> {}

\* `data` without the keys of `omit`
Without(data, omit) == SelectSeq(data, LAMBDA p : p[1] \notin omit)

\* the required fields a payload may lack: the first, the last, or both
omissions(kind) ==
    LET r == required_fields(kind)
    IN  IF r = <<>> THEN {{}} ELSE SUBSET {r[1], r[Len(r)]}

\* the extras follow the required fields, or (those an attribute event or the
\* constructor may refuse) precede them
create_payloads(kind) ==
    {c \o e : c \in complete(kind), e \in extras(kind)}
    \cup {e \o c : c \in complete(kind),
                   e \in {x \in extras(kind) :
                            x # <<>> /\ x[1][1] \in DOMAIN validators(kind) \cup {"bogus"}}}
    \cup {Without(c, o) : c \in complete(kind), o \in omissions(kind)}
    \cup {<<<<"bogus", Some(1)>>>> \o Without(c, o) :
              c \in complete(kind), o \in omissions(kind) \ {{}}}

\* the payload of a plain row: the required fields, references that exist
plain_payloads(kind) ==
    CASE kind = "agents" ->
           {<<<<"department_id", Some(1)>>, <<"name", Some("n")>>,
              <<"rank", Some("Agent")>>>>}
      [] kind = "abnormalities" ->
           complete(kind) \cup {c \o <<<<"tile_id", Some(1)>>>> : c \in complete(kind)}
      [] OTHER -> complete(kind)

\* the <<key, value>> pairs an edit may hold
edit_pairs(kind) ==
    {<<"bogus", Some(1)>>, <<"id", Some(1)>>} \cup
    CASE kind = "facilities" ->
           {<<"shift", Some(1)>>, <<"shift", Some(3)>>, <<"id", Some(2)>>}
      [] kind = "departments" -> {<<"name", Some("dept_2")>>}
      [] kind = "agents" ->
           {<<"stress", Some(3)>>, <<"rank", Some("Agent")>>, <<"rank", Some("Captain")>>,
            <<"physical_heal", Some(5)>>, <<"department_id", Some(2)>>,
            <<"department_id", Some(Absent)>>, <<"abnormality_id", Some(1)>>}
      [] kind = "abnormalities" ->
           {<<"is_breaching", Some(TRUE)>>, <<"is_working", Some(TRUE)>>,
            <<"clock_1", Some(1)>>, <<"story_show", Some(-1)>>,
            <<"threat_level", Some("ZAYIN")>>}
      [] kind = "projects" ->
           {<<"curr_tick", Some(1)>>, <<"curr_tick", Some(-1)>>, <<"max_clock", Some(0)>>}
      [] kind = "abilities" -> {<<"rank", Some("Captain")>>, <<"rank", Some("Boss")>>}
      [] kind = "harms" -> {<<"level", Some(4)>>, <<"level", Some(2)>>}
      [] kind = "egos" -> {<<"type", Some("Gift")>>, <<"type", Some("Suit")>>,
                           <<"max_extracted", Some(1)>>}
      [] kind = "clocks" -> {<<"tick_count", Some(1)>>, <<"max_count", Some(0)>>}
      [] kind = "tiles" ->
           {<<"is_working", Some(TRUE)>>, <<"is_containment_unit", Some(TRUE)>>}
      [] OTHER -> {}

\* one pair, or a pair and the key that is no column, in either order
edit_payloads(kind) ==
    LET bogus == <<"bogus", Some(1)>>
        others == edit_pairs(kind) \ {bogus}
    IN  {<<p>> : p \in edit_pairs(kind)}
        \cup {<<p, bogus>> : p \in others} \cup {<<bogus, p>> : p \in others}

(***************************************************************************)
(* The state machine.                                                      *)
(***************************************************************************)
\* the last request (route family, table, id of the path, payload) and what
\* it was answered: the code, the body, and the exception the wrapper caught
NoResp == [op |-> "", kind |-> "", id |-> None, data |-> <<>>, code |-> 0,
           body |-> None, exc |-> NoExc]

Resp(op, kind, id, data, result) ==
    [op |-> op, kind |-> kind, id |-> id, data |-> data,
     code |-> result.response.code, body |-> result.response.body,
     exc |-> result.exc]

\* app.py 509
TileCount == 448

Init ==
    /\ store = [k \in Kinds |-> <<>>]
    /\ seq = [k \in Kinds |-> 0]
    /\ phase = "facility_init"
    /\ scope \in Scopes
    /\ resp = NoResp
    /\ deleted = <<>>

\* app.py 475-485
facility_init ==
    /\ phase = "facility_init"
    /\ LET f == flush(Session(store, seq, "facilities", <<>>, None))
       IN  IF DOMAIN store["facilities"] = {}
           THEN IF f.exc = NoExc
                THEN store' = f.s.tx /\ seq' = f.s.sq /\ phase' = "departments_init"
                ELSE store' = store /\ seq' = f.s.sq /\ phase' = "aborted"
           ELSE UNCHANGED <<store, seq>> /\ phase' = "departments_init"
    /\ UNCHANGED <<scope, resp, deleted>>

RECURSIVE add_departments(_, _)
\* app.py 495-499: the rows of the configuration, flushed by the commit
add_departments(s, names) ==
    IF names = {} THEN [exc |-> NoExc, s |-> s]
    ELSE LET name == CHOOSE n \in names : \A m \in names : departments[n] <= departments[m]
             f == flush([s EXCEPT !.obj = [id |-> Some(departments[name]),
                                          name |-> Some(name)],
                                  !.old = None])
         IN  IF f.exc # NoExc THEN f ELSE add_departments(f.s, names \ {name})

\* app.py 488-502; Query.delete() is one DELETE of every row of the table
departments_init ==
    /\ phase = "departments_init"
    /\ LET referred == \E a \in DOMAIN store["agents"] :
                           store["agents"][a].department_id # None
           emptied == [store EXCEPT !["departments"] = <<>>]
           f == add_departments(Session(emptied, seq, "departments", <<>>, None),
                                DOMAIN departments)
       IN  IF Cardinality(DOMAIN store["departments"]) # 5
           THEN IF ~referred /\ f.exc = NoExc
                THEN store' = f.s.tx /\ seq' = f.s.sq /\ phase' = "tiles_init"
                ELSE store' = store /\ seq' = f.s.sq /\ phase' = "aborted"
           ELSE UNCHANGED <<store, seq>> /\ phase' = "tiles_init"
    /\ UNCHANGED <<scope, resp, deleted>>

\* app.py 505-521: the first of the new tiles decides the commit, they all
\* lack is_containment_unit
tiles_init ==
    /\ phase = "tiles_init"
    /\ LET referred == \E k \in {"agents", "abnormalities"} :
                          \E a \in DOMAIN store[k] : store[k][a].tile_id # None
           emptied == [store EXCEPT !["tiles"] = <<>>]
           f == flush(Session(emptied, seq, "tiles",
                              [x |-> Some(0), y |-> Some(0),
                               can_place_containment |-> Some(FALSE)], None))
       IN  IF Cardinality(DOMAIN store["tiles"]) # TileCount
           THEN IF ~referred /\ f.exc = NoExc
                THEN store' = f.s.tx /\ seq' = f.s.sq /\ phase' = "serving"
                ELSE store' = store /\ seq' = f.s.sq /\ phase' = "aborted"
           ELSE UNCHANGED <<store, seq>> /\ phase' = "serving"
    /\ UNCHANGED <<scope, resp, deleted>>

\* The application object served by a WSGI server: app.py is imported, the
\* block under __name__ == "__main__" (app.py 524-528) does not run.  The
\* store is the one the initializers left.
serve ==
    /\ phase = "aborted"
    /\ phase' = "serving"
    /\ UNCHANGED <<store, seq, scope, resp, deleted>>

\* History of the delete requests, kept to state what a later get finds:
\* <<kind, i>> is in the domain from a delete of row i of kind that succeeded
\* until a create returns a row of kind with id i; the value tells whether an
\* edit has returned a row with id i since.
Deleted(op, kind, id, result) ==
    LET code == result.response.code
        body == result.response.body
    IN  IF op = "delete" /\ code = 200 THEN Put(deleted, <<kind, id[1]>>, "")
        ELSE IF op = "create" /\ code = 201
        THEN [p \in DOMAIN deleted \ {<<kind, body.id[1]>>} |-> deleted[p]]
        ELSE IF op = "edit" /\ code = 200 /\ <<kind, body.id[1]>> \in DOMAIN deleted
        THEN [deleted EXCEPT ![<<kind, body.id[1]>>] = "edit"]
        ELSE deleted

\* a request: the route's handler, then the teardown of the request context,
\* which removes the session with whatever it still holds
Request(op, kind, id, data, result) ==
    /\ phase = "serving"
    /\ store' = result.db
    /\ seq' = result.sq
    /\ resp' = Resp(op, kind, id, data, result)
    /\ deleted' = Deleted(op, kind, id, result)
    /\ UNCHANGED <<phase, scope>>

get ==
    \E kind \in get_routes \cap scope.tables, id \in RequestIds :
        Request("get", kind, Some(id), <<>>, get_one_from_model(store, seq, id, kind))

create ==
    \E kind \in create_routes \cap (scope.tables \cup scope.parents) :
        /\ Cardinality(DOMAIN store[kind]) < MaxRows
        /\ \E data \in IF kind \in scope.tables THEN create_payloads(kind)
                        ELSE plain_payloads(kind) :
              /\ "id" \in Keys(data) \/ seq[kind] < MaxSeq
              /\ Request("create", kind, None, data,
                      catch_exception_wrapper(create_model(store, seq, data, kind)))

edit ==
    \E kind \in edit_routes \cap scope.tables, id \in RequestIds :
        \E data \in edit_payloads(kind) :
            Request("edit", kind, Some(id), data,
                    catch_exception_wrapper(edit_model_by_id(store, seq, id, data, kind)))

delete ==
    \E kind \in delete_routes \cap (scope.tables \cup scope.parents), id \in RequestIds :
        Request("delete", kind, Some(id), <<>>,
                catch_exception_wrapper(delete_model_by_id(store, seq, id, kind)))

Next == facility_init \/ departments_init \/ tiles_init \/ serve
        \/ get \/ create \/ edit \/ delete

Spec == Init /\ [][Next]_vars

\* The tile routes on a store that holds a tile.  tiles_init never commits
\* a tile (it leaves is_containment_unit unset), so the tile is one that
\* was stored by other means than the routes: a row the Tile class can
\* build (the four validated fields unset, the CHECK of db.py 651-654 met)
\* that is no containment unit.  The startup initializers and the routes
\* are those of Spec.
InitSeeded ==
    /\ \E placeable \in BOOLEAN :
          store = [k \in Kinds |->
                     IF k = "tiles"
                     THEN [id \in {1} |->
                             [id |-> Some(1), y |-> Some(0), x |-> Some(0),
                              can_place_containment |-> Some(placeable),
                              is_containment_unit |-> Some(FALSE),
                              is_working |-> None, meltdown |-> None,
                              work_type |-> None, engagement_status |-> None]]
                     ELSE <<>>]
    /\ seq = [k \in Kinds |-> IF k = "tiles" THEN 1 ELSE 0]
    /\ phase = "facility_init"
    /\ scope = Scope({"tiles"}, {"abnormalities"})
    /\ resp = NoResp
    /\ deleted = <<>>

SpecSeeded == InitSeeded /\ [][Next]_vars

(***************************************************************************)
(* Properties.  In a step of Next that is a request, the unprimed store is *)
(* the store the request found, resp' the request and its answer, and      *)
(* store' what the request left.                                           *)
(***************************************************************************)
\* the keys of a payload are columns of the table, and no required field
\* is absent
WellFormed(data, kind) ==
    /\ Keys(data) \subseteq Range(columns(kind))
    /\ check_required_fields(data, kind) = None

\* the body of the answer to a key that is no column
UnknownColumn(k) == [error |-> <<"Column '", k, "' not found">>]

\* the body of the answer to a reference to a row that does not exist
RelationNotFound(table, id) ==
    [error |-> <<"Row not found in table '", table, "' for id=", id>>]

\* C1: when a create succeeds (201) and returns a serialized entity with id
\* i, a get of the same kind and id i that follows at once answers 200 with
\* a value equal to the serialized entity the create returned.
C1_CreateThenGet ==
    (resp.op = "create" /\ resp.code = 201) =>
        get_one_from_model(store, seq, resp.body.id[1], resp.kind).response
            = success_response(resp.body, 200)

C1_Created ==
    /\ resp.op = "create" /\ resp.code = 201 /\ resp.kind = "egos"
    /\ resp.body.id = Some(1) /\ resp.body.abnormality_id = Some(1)

\* C2 as stated: after a delete of row i of a kind succeeded, the row is
\* absent from the store and a get of that kind and id answers 404, until a
\* create produces a row with id i.
C2_DeletedUntilCreate ==
    \A p \in DOMAIN deleted :
        /\ p[2] \notin DOMAIN store[p[1]]
        /\ get_one_from_model(store, seq, p[2], p[1]).response.code = 404

\* C2 amended: after a delete of row i of a kind succeeded, the row is absent
\* from the store and a get of that kind and id answers 404, until a create
\* or an edit (of the column id of another row) produces a row with id i.
C2_DeletedUntilCreateOrEdit ==
    \A p \in DOMAIN deleted :
        deleted[p] = "" =>
            /\ p[2] \notin DOMAIN store[p[1]]
            /\ get_one_from_model(store, seq, p[2], p[1]).response.code = 404

C2_GetAfterDelete ==
    /\ resp.op = "get" /\ resp.code = 404
    /\ <<resp.kind, resp.id[1]>> \in DOMAIN deleted
    /\ deleted[<<resp.kind, resp.id[1]>>] = ""
    /\ store[resp.kind] # <<>>

\* C3: a create of an Agent whose payload is well formed and whose
\* department_id matches no Department row is answered 404 with the message
\* that names the table 'departments' and the id, and persists no Agent row.
C3_AgentDepartmentNotFound ==
    [][(/\ resp'.op = "create" /\ resp'.kind = "agents"
        /\ WellFormed(resp'.data, "agents")
        /\ Get(resp'.data, "department_id")[1] \notin DOMAIN store["departments"])
       => (/\ resp'.code = 404
           /\ resp'.body = RelationNotFound("departments",
                                            Get(resp'.data, "department_id")[1])
           /\ store' = store)]_vars

\* C4: an edit of an existing row with a payload that has a key that is no
\* column of the table is answered 400 UnknownColumn and leaves the row as
\* it was, also when column keys precede the unknown key.
C4_EditUnknownColumn ==
    [][(/\ resp'.op = "edit" /\ resp'.id[1] \in DOMAIN store[resp'.kind]
        /\ ~(Keys(resp'.data) \subseteq Range(columns(resp'.kind))))
       => (/\ resp'.code = 400
           /\ \E k \in Keys(resp'.data) \ Range(columns(resp'.kind)) :
                 resp'.body = UnknownColumn(k)
           /\ store'[resp'.kind][resp'.id[1]] = store[resp'.kind][resp'.id[1]])]_vars

\* C5: a create of an Agent with every required field, an existing
\* department and stress = 7 is, for rank "Agent", answered 400 and persists
\* no row, and for rank "Captain" answered 201 and persists the row with
\* stress 7.
C5_StressBoundByRank ==
    [][(/\ resp'.op = "create" /\ resp'.kind = "agents"
        /\ Keys(resp'.data) = Range(required_fields("agents")) \cup {"stress"}
        /\ Get(resp'.data, "department_id")[1] \in DOMAIN store["departments"]
        /\ Get(resp'.data, "stress") = Some(7))
       => IF Get(resp'.data, "rank") = Some("Agent")
          THEN resp'.code = 400 /\ store' = store
          ELSE /\ resp'.code = 201
               /\ resp'.body.id[1] \in DOMAIN store'["agents"]
               /\ store'["agents"][resp'.body.id[1]].stress = Some(7)]_vars

\* C6: no persisted Abnormality has is_breaching and is_working both true; a
\* create or an edit that would make both true is answered 400 and changes
\* no row.
C6_NotBreachingAndWorking ==
    /\ \A a \in DOMAIN store["abnormalities"] :
          ~(/\ store["abnormalities"][a].is_breaching = Some(TRUE)
            /\ store["abnormalities"][a].is_working = Some(TRUE))
    /\ (/\ resp.op = "create" /\ resp.kind = "abnormalities"
        /\ WellFormed(resp.data, "abnormalities")
        /\ {"is_breaching", "is_working"} \subseteq Keys(resp.data)
        /\ Get(resp.data, "is_breaching") = Some(TRUE)
        /\ Get(resp.data, "is_working") = Some(TRUE))
       => resp.code = 400

\* a persisted Ego of type "Gift" has no max_extracted
GiftHasNoMaxExtracted ==
    \A e \in DOMAIN store["egos"] :
        store["egos"][e].type = Some("Gift") => store["egos"][e].max_extracted = None

\* the row an edit of well-formed column keys asks for
Edited(row, data) ==
    [c \in DOMAIN row |-> IF c \in Keys(data) THEN Get(data, c) ELSE row[c]]

\* C7: no persisted Ego has type "Gift" together with a non-null
\* max_extracted; a create of such an Ego is answered 400, and so is an edit
\* that sets type to "Gift" on an Ego with a max_extracted or sets
\* max_extracted on a "Gift" Ego.
C7_GiftEgoNotExtracted ==
    /\ []GiftHasNoMaxExtracted
    /\ [][/\ (/\ resp'.op = "create" /\ resp'.kind = "egos"
              /\ WellFormed(resp'.data, "egos")
              /\ Get(resp'.data, "type") = Some("Gift")
              /\ "max_extracted" \in Keys(resp'.data)
              /\ Get(resp'.data, "max_extracted") # None)
             => resp'.code = 400 /\ store' = store
          /\ (/\ resp'.op = "edit" /\ resp'.kind = "egos"
              /\ resp'.id[1] \in DOMAIN store["egos"]
              /\ Keys(resp'.data) \subseteq Range(columns("egos"))
              /\ Keys(resp'.data) \cap {"type", "max_extracted"} # {}
              /\ LET row == Edited(store["egos"][resp'.id[1]], resp'.data)
                 IN  row.type = Some("Gift") /\ row.max_extracted # None)
             => resp'.code = 400 /\ store' = store]_vars

C7_GiftEditRefused ==
    /\ resp.op = "edit" /\ resp.kind = "egos" /\ resp.code = 400
    /\ resp.data = <<<<"type", Some("Gift")>>>>
    /\ resp.exc.detail = "CheckViolation"
    /\ store["egos"][resp.id[1]].max_extracted # None

\* the required fields of a kind that a payload lacks, in declaration order
Missing(data, kind) ==
    SelectSeq(required_fields(kind), LAMBDA f : \A i \in DOMAIN data : data[i][1] # f)

\* C8: a create whose payload lacks required fields of the kind is answered
\* 400 with the MissingFields message that lists every absent required
\* field, persists no row, and happens before the row is constructed (no
\* constructor error) and before any reference is resolved (no statement is
\* sent: the sequence is not advanced).
C8_MissingFields ==
    [][(resp'.op = "create" /\ Missing(resp'.data, resp'.kind) # <<>>)
       => (/\ resp'.code = 400
           /\ resp'.body = [error |-> <<"Missing required fields: ",
                                         Missing(resp'.data, resp'.kind)>>]
           /\ resp'.exc = NoExc
           /\ store' = store /\ seq' = seq)]_vars

C8_TwoMissing ==
    /\ resp.op = "create" /\ resp.kind = "agents" /\ resp.code = 400
    /\ resp.data = <<<<"bogus", Some(1)>>, <<"name", Some("n")>>>>
    /\ resp.body = [error |-> <<"Missing required fields: ", <<"department_id", "rank">>>>]

\* C9: a create, edit or delete that is answered with an error code (400,
\* 404, 500) leaves the rows of every table as they were; what the failed
\* request had pending is committed by no later request (every request
\* starts from the committed store).
C9_FailureLeavesStore ==
    [][(resp'.op \in {"create", "edit", "delete"} /\ resp'.code \in {400, 404, 500})
       => store' = store]_vars

C9_PendingDiscarded ==
    /\ resp.op = "edit" /\ resp.kind = "agents" /\ resp.code = 400
    /\ resp.data = <<<<"rank", Some("Captain")>>, <<"bogus", Some(1)>>>>
    /\ store["agents"][resp.id[1]].rank = Some("Agent")

\* the object the validators of a well-formed create see once every
\* attribute is set
Built(data) == [k \in Keys(data) |-> Get(data, k)]

\* C10: in a create, a value that a field validator rejects and a statement
\* that the store rejects are answered 400; 500 answers only what is no
\* constraint violation; a reference to a row that does not exist is
\* answered 404.
C10_ErrorCodes ==
    (resp.op = "create" /\ WellFormed(resp.data, resp.kind)) =>
        /\ ("stress" \in Keys(resp.data)
            /\ validates_stress(Built(resp.data), Get(resp.data, "stress")) # NoExc)
           => resp.code = 400
        /\ resp.exc.class \in StatementError
           => resp.code = 400
        /\ (\E k \in Keys(resp.data) \cap DOMAIN fields_to_column[resp.kind] :
               Get(resp.data, k)[1] \notin DOMAIN store[field_to_tablename[k]])
           => resp.code = 404

\* what a get answers and leaves, given the message of its 404
GetAnswers(message) ==
    resp'.op = "get" =>
        LET id == resp'.id[1]
            kind == resp'.kind
        IN  /\ store' = store /\ seq' = seq
            /\ IF id \in DOMAIN store[kind]
               THEN /\ resp'.code = 200
                    /\ resp'.body = serialize(store, kind, store[kind][id])
               ELSE /\ resp'.code = 404
                    /\ resp'.body = [error |-> <<message, id>>]

\* C11 as stated: a get of an id that no row of the kind has is answered 404
\* with the body {"error": "Not found for id: <id>"} and changes no stored
\* state; a get of an id that a row has is answered 200 with the full
\* serialization of the row.
C11_GetNotFoundOrSerialized ==
    [][GetAnswers("Not found for id: ")]_vars

\* C11 amended: the same, the message of the 404 being "Row not found for
\* id: <id>".
C11_GetRowNotFoundOrSerialized ==
    [][GetAnswers("Row not found for id: ")]_vars

C11_GetBesideRow ==
    /\ resp.op = "get" /\ resp.code = 404 /\ resp.kind = "agents"
    /\ resp.id = Some(2) /\ DOMAIN store["agents"] = {1}

\* C12: a delete of a row that exists is answered 200 with the body a get of
\* the row would have been answered with just before (the serialization
\* before the delete, nested lists of related rows included) and removes
\* the row; a delete of an id that no row has is answered 404 and removes
\* nothing.
C12_DeleteReturnsPriorState ==
    [][resp'.op = "delete" =>
          LET id == resp'.id[1]
              kind == resp'.kind
              before == get_one_from_model(store, seq, id, kind).response
          IN  IF id \in DOMAIN store[kind]
              THEN /\ before.code = 200
                   /\ resp'.code = 200
                   /\ resp'.body = before.body
                   /\ id \notin DOMAIN store'[kind]
              ELSE /\ resp'.code = 404
                   /\ store' = store]_vars

C12_DeletedAgentWithHarm ==
    /\ resp.op = "delete" /\ resp.kind = "agents" /\ resp.code = 200
    /\ Len(resp.body.harms) = 1 /\ resp.body.harms[1].agent_id = resp.id
    /\ store["agents"] = <<>> /\ store["harms"] = <<>>

\* the rows of a child table whose column refers to row id
Children(db, child, column, id) ==
    {r \in DOMAIN db[child] : db[child][r][column] = Some(id)}

\* C13: after a delete of an Agent succeeded no Harm with that agent_id is
\* left, and after a delete of an Abnormality succeeded no Ego with that
\* abnormality_id is left; in every reachable state every Harm refers to an
\* Agent that exists and every Ego to an Abnormality that exists.
C13_OwnedChildrenFollow ==
    /\ [](/\ \A h \in DOMAIN store["harms"] :
              \E a \in DOMAIN store["agents"] :
                 store["harms"][h].agent_id = Some(a)
          /\ \A e \in DOMAIN store["egos"] :
              \E a \in DOMAIN store["abnormalities"] :
                 store["egos"][e].abnormality_id = Some(a))
    /\ [][(resp'.op = "delete" /\ resp'.code = 200) =>
             /\ resp'.kind = "agents"
                => Children(store', "harms", "agent_id", resp'.id[1]) = {}
             /\ resp'.kind = "abnormalities"
                => Children(store', "egos", "abnormality_id", resp'.id[1]) = {}]_vars

C13_DeletedAbnormalityWithEgo ==
    /\ resp.op = "delete" /\ resp.kind = "abnormalities" /\ resp.code = 200
    /\ Len(resp.body.egos) = 1
    /\ store["abnormalities"] = <<>> /\ store["egos"] = <<>>

\* C14: an edit of an existing row whose payload is one key that the
\* configuration maps to a relationship is answered 200 and links the row
\* to the referenced row when that row exists, and is answered 404 with the
\* message that names the table and the id, leaving the store as it was,
\* when it does not.
C14_EditResolvesRelationship ==
    [][(/\ resp'.op = "edit" /\ resp'.id[1] \in DOMAIN store[resp'.kind]
        /\ Len(resp'.data) = 1
        /\ Keys(resp'.data) \subseteq DOMAIN fields_to_column[resp'.kind])
       => LET k == resp'.data[1][1]
              r_id == resp'.data[1][2][1]
              table == field_to_tablename[k]
          IN  IF r_id \in DOMAIN store[table]
              THEN /\ resp'.code = 200
                   /\ store'[resp'.kind][resp'.id[1]][k] = Some(r_id)
              ELSE /\ resp'.code = 404
                   /\ resp'.body = RelationNotFound(table, r_id)
                   /\ store' = store]_vars

\* C15: in every state after the startup initialization, whatever edits of
\* the facility followed (of any column, id included), the table facilities
\* holds exactly one row, and its id is 1.
C15_OneFacilityOfId1 ==
    phase = "serving" =>
        /\ DOMAIN store["facilities"] = {1}
        /\ store["facilities"][1].id = Some(1)

\* C16: in every state after the startup initialization, whatever edits of a
\* department followed (of its name or id), the table departments holds
\* exactly 5 rows whose names are pairwise distinct, one row per name of the
\* configuration.
C16_FiveDepartmentsByName ==
    phase = "serving" =>
        LET rows == store["departments"]
        IN  /\ Cardinality(DOMAIN rows) = 5
            /\ \A a, b \in DOMAIN rows : rows[a].name = rows[b].name => a = b
            /\ {rows[a].name : a \in DOMAIN rows}
                  = {Some(name) : name \in department_names_enum}

\* the largest stress of a rank
StressCeiling(rank) == IF rank = Some("Agent") THEN 6 ELSE 8

Clocks == {"clock_1", "clock_2", "clock_3", "clock_4"}

Assigned(db, t) ==
    \E a \in DOMAIN db["abnormalities"] : db["abnormalities"][a].tile_id = Some(t)

\* the fields of a Tile that say what goes on in its containment unit
UnitFields == {"is_working", "meltdown", "work_type", "engagement_status"}

\* C19, the invariant: a Tile is a containment unit only if a containment
\* unit can be placed on it and an Abnormality is assigned to it, and its
\* is_working, meltdown, work_type and engagement_status are null unless an
\* Abnormality is assigned to it.
TileFollowsAbnormality ==
    \A t \in DOMAIN store["tiles"] :
        LET row == store["tiles"][t]
        IN  /\ row.is_containment_unit = Some(TRUE)
               => (row.can_place_containment = Some(TRUE) /\ Assigned(store, t))
            /\ ~Assigned(store, t) => \A f \in UnitFields : row[f] = None

\* C19, the edit: an edit that sets one of the four fields to a value that
\* is not null, on a tile an Abnormality is assigned to, is accepted.
UnitFieldEditAccepted ==
    (/\ resp'.op = "edit" /\ resp'.kind = "tiles"
     /\ resp'.id[1] \in DOMAIN store["tiles"] /\ Assigned(store, resp'.id[1])
     /\ Len(resp'.data) = 1 /\ resp'.data[1][1] \in UnitFields
     /\ resp'.data[1][2] # None)
    => (/\ resp'.code = 200
        /\ store'["tiles"][resp'.id[1]][resp'.data[1][1]] = resp'.data[1][2])

TickWithinMax(kind, row) ==
    IF kind = "projects"
    THEN 0 <= row.curr_tick[1] /\ row.curr_tick[1] <= row.max_clock[1]
    ELSE row.tick_count[1] <= row.max_count[1]

\* the row a well-formed create asks for, as far as the counters go
Ticking(data) ==
    [c \in {"curr_tick", "tick_count", "max_clock", "max_count"} |->
        IF c \in Keys(data) THEN Get(data, c) ELSE Some(0)]

\* C20: in every state that create and edit requests reach, every persisted
\* Project has 0 <= curr_tick <= max_clock and every persisted Clock has
\* tick_count <= max_count; a create or an edit that asks for a row outside
\* the bound (an edit that only lowers max_clock or max_count below the
\* stored counter too) is answered 400 and changes no row.
C20_TickCountersBounded ==
    /\ [](\A kind \in {"projects", "clocks"} :
             \A r \in DOMAIN store[kind] : TickWithinMax(kind, store[kind][r]))
    /\ [][resp'.kind \in {"projects", "clocks"} =>
             /\ (/\ resp'.op = "create" /\ WellFormed(resp'.data, resp'.kind)
                 /\ ~TickWithinMax(resp'.kind, Ticking(resp'.data)))
                => resp'.code = 400 /\ store' = store
             /\ (/\ resp'.op = "edit" /\ resp'.id[1] \in DOMAIN store[resp'.kind]
                 /\ Keys(resp'.data) \subseteq Range(columns(resp'.kind))
                 /\ ~TickWithinMax(resp'.kind,
                                   Edited(store[resp'.kind][resp'.id[1]], resp'.data)))
                => resp'.code = 400 /\ store' = store]_vars

C20_MaxLoweredBelowTick ==
    /\ resp.op = "edit" /\ resp.kind = "projects" /\ resp.code = 400
    /\ resp.data = <<<<"max_clock", Some(0)>>>>
    /\ resp.exc.detail = "CheckViolation"
    /\ store["projects"][resp.id[1]].curr_tick = Some(1)
    /\ store["projects"][resp.id[1]].max_clock = Some(1)

\* C21: in every state that create and edit requests reach, a persisted
\* Abnormality has 0 <= management_show <= the length of management_notes
\* and 0 <= story_show <= the length of stories; with an empty list the
\* counter is 0.
C21_ShowWithinListLength ==
    \A a \in DOMAIN store["abnormalities"] :
        LET row == store["abnormalities"][a]
        IN  /\ row.management_show[1] \in 0 .. Len(row.management_notes[1])
            /\ row.story_show[1] \in 0 .. Len(row.stories[1])

\* the pairs of a payload in the opposite order
Reversed(data) == [i \in DOMAIN data |-> data[Len(data) + 1 - i]]

\* what the route of the last request answers to a payload, on the store
\* the request found
Answer(op, kind, id, data) ==
    IF op = "create"
    THEN catch_exception_wrapper(create_model(store, seq, data, kind))
    ELSE catch_exception_wrapper(edit_model_by_id(store, seq, id[1], data, kind))

\* C22: what a create or an edit answers (its code) and the rows it leaves
\* do not depend on the order of the keys of the payload: the payload with
\* its pairs in the opposite order is answered with the same code and
\* leaves the same rows.
C22_KeyOrderIrrelevant ==
    [][resp'.op \in {"create", "edit"} =>
          LET other == Answer(resp'.op, resp'.kind, resp'.id, Reversed(resp'.data))
          IN  /\ other.response.code = resp'.code
              /\ other.db = store']_vars

\* C23: in every reachable state the department_id of a persisted Agent is
\* the id of a Department that exists, and its tile_id and abnormality_id
\* are each null or the id of a row that exists; a delete of an Abnormality
\* succeeds also when Agents are assigned to it, deletes none of them and
\* leaves those that were assigned with a null abnormality_id.
C23_AgentReferencesExist ==
    /\ [](\A a \in DOMAIN store["agents"] :
             LET row == store["agents"][a]
             IN  /\ \E d \in DOMAIN store["departments"] : row.department_id = Some(d)
                 /\ row.tile_id = None
                    \/ \E t \in DOMAIN store["tiles"] : row.tile_id = Some(t)
                 /\ row.abnormality_id = None
                    \/ \E b \in DOMAIN store["abnormalities"] :
                          row.abnormality_id = Some(b))
    /\ [][(/\ resp'.op = "delete" /\ resp'.kind = "abnormalities"
           /\ resp'.id[1] \in DOMAIN store["abnormalities"])
          => /\ resp'.code = 200
             /\ DOMAIN store'["agents"] = DOMAIN store["agents"]
             /\ \A a \in DOMAIN store["agents"] :
                   store'["agents"][a] =
                      IF store["agents"][a].abnormality_id = resp'.id
                      THEN [store["agents"][a] EXCEPT !.abnormality_id = None]
                      ELSE store["agents"][a]]_vars

C23_AgentOutlivesAbnormality ==
    /\ resp.op = "delete" /\ resp.kind = "abnormalities" /\ resp.code = 200
    /\ Len(resp.body.agents) = 1
    /\ \E a \in DOMAIN store["agents"] :
          /\ resp.body.agents[1].id = Some(a)
          /\ store["agents"][a].abnormality_id = None

\* C24: run on the empty store, facility_init, departments_init and
\* tiles_init end without error, and the store they leave, before any
\* request, holds exactly 1 Facility, the 5 Departments of the configuration
\* (ids and names) and TileCount Tiles.
C24_StartupSeedsStore ==
    /\ phase # "aborted"
    /\ (phase = "serving" /\ resp = NoResp) =>
          /\ Cardinality(DOMAIN store["facilities"]) = 1
          /\ DOMAIN store["departments"] = {departments[n] : n \in DOMAIN departments}
          /\ \A n \in DOMAIN departments :
                store["departments"][departments[n]].name = Some(n)
          /\ Cardinality(DOMAIN store["tiles"]) = TileCount

============================================================================
